---- MODULE Spec2Model ----
(***************************************************************************)
(* The interview session of the InteractiveAvatar component               *)
(* (src/unnamed/part_001): the call-status state machine, the camera and  *)
(* microphone streams, the Deepgram transcript relay with its debounce    *)
(* timer, the HeyGen avatar callbacks, the conversation log and the       *)
(* end-of-interview grading request; and two server-side operations, the *)
(* access-token route (app/api/get-access-token/route.ts) and             *)
(* sendInterviewInvite (app/actions/sendInvite.ts).                       *)
(*                                                                         *)
(* One action is one synchronous block of a handler: the code from an     *)
(* event (click, promise settlement, socket or avatar callback, timer)    *)
(* up to the next await.  React re-renders after each block, so a click   *)
(* handler reads the current state, while a callback created inside a     *)
(* handler keeps the values of the render that created it: those captured *)
(* values are stored with the process that captured them.                 *)
(***************************************************************************)
EXTENDS Integers, Sequences, FiniteSets, TLC

\* ---------------------------------------------------------------- bounds
MaxStarts == 2      \* startInterview invocations
MaxEnds == 1        \* endInterview invocations
MaxRelays == 2      \* startDeepgramListening invocations
MaxTimers == 2      \* debounce timers armed
MaxChunks == 1      \* audio chunks forwarded to a recognizer socket
MaxSockets == 1     \* relays in the debounce specification
MaxAttempts == 1    \* startInterview invocations in the session specification
MaxClock == 2       \* ticks of the wall clock
MaxCalls == 2       \* invocations of sendInterviewInvite

Starts == 1..MaxStarts
Ends == 1..MaxEnds
Relays == 1..MaxRelays
Timers == 1..MaxTimers

\* ------------------------------------------------------------- constants
\* A text is a sequence of characters; " " is whitespace.
Trim(s) ==
  LET isWs(c) == c = " "
      lo == IF \E i \in 1..Len(s) : ~isWs(s[i])
              THEN CHOOSE i \in 1..Len(s) :
                     ~isWs(s[i]) /\ \A j \in 1..(i - 1) : isWs(s[j])
              ELSE Len(s) + 1
      hi == IF \E i \in 1..Len(s) : ~isWs(s[i])
              THEN CHOOSE i \in 1..Len(s) :
                     ~isWs(s[i]) /\ \A j \in (i + 1)..Len(s) : isWs(s[j])
              ELSE Len(s)
  IN  IF lo > hi THEN << >> ELSE SubSeq(s, lo, hi)

candidateId == "cand-1"
candidateName == "Ann"
welcomeMessage == <<"w">>

\* Transcripts a recognizer message can carry.
MsgTexts == { << >>, <<" ">>, <<"a">>, <<"b", " ">> }

CallStatus == {"idle", "connecting", "active", "analyzing", "ended"}

VARIABLES
  \* React state
  callStatus, error, isMicOn, isCameraOn, isAvatarTalking, isListening,
  transcript,
  \* refs
  avatarRef, userStreamRef, audioStreamRef, mediaRecorderRef,
  deepgramSocketRef, autoSendTimeoutRef, pendingStreamRef,
  conversationHistoryRef,
  videoSrc,       \* srcObject of the avatar <video>, 0 when none / not mounted
  applied,        \* times applyStreamToVideo set the stream of session a
  \* browser objects, by the id of the invocation that created them
  cam,            \* camera stream of start attempt a: none / live / stopped
  camEnabled,     \* enabled flag of that stream's video track
  stream,         \* microphone stream of relay r: none / live / stopped
  sock,           \* recognizer socket of relay r
  rec,            \* MediaRecorder of relay r
  timers,         \* debounce timers: state, text, captured call status
  avatar,         \* avatar session of start attempt a
  \* processes (async functions in flight)
  start,          \* startInterview invocations
  end,            \* endInterview invocations
  relayPc,        \* startDeepgramListening invocations
  relayCs,        \* the callStatus captured by their sendToAvatar
  \* observations
  speakReqs,      \* speak requests issued to the avatar service
  gradingReqs,    \* POST /api/end-interview requests issued
  chunks,         \* audio chunks sent over a recognizer socket
  escaped,        \* an exception left a handler uncaught
  \* environment
  now,            \* the wall clock read by new Date()
  unmounted,      \* the component was unmounted
  \* server
  tokenRoute,     \* the runs of POST /api/get-access-token
  supabaseEnv,    \* the Supabase configuration of the server's environment
  candidates,     \* the candidates table
  invite          \* the invocations of sendInterviewInvite

vars == << callStatus, error, isMicOn, isCameraOn, isAvatarTalking,
           isListening, transcript, avatarRef, userStreamRef, audioStreamRef,
           mediaRecorderRef, deepgramSocketRef, autoSendTimeoutRef,
           pendingStreamRef, conversationHistoryRef, videoSrc, applied, cam,
           camEnabled, stream, sock, rec, timers, avatar, start, end,
           relayPc, relayCs, speakReqs, gradingReqs, chunks, escaped, now,
           unmounted, tokenRoute, supabaseEnv, candidates, invite >>

serverVars == << tokenRoute, supabaseEnv, candidates, invite >>

reactVars == << callStatus, error, isMicOn, isCameraOn, isAvatarTalking,
                isListening, transcript >>
relayRefs == << audioStreamRef, mediaRecorderRef, deepgramSocketRef,
                autoSendTimeoutRef >>
relayObjs == << stream, sock, rec, timers >>
relayProcs == << relayPc, relayCs >>
cameraVars == << userStreamRef, cam, camEnabled >>
avatarVars == << avatarRef, avatar, pendingStreamRef, videoSrc, applied >>
logVars == << conversationHistoryRef, speakReqs >>

NoTimer == [st |-> "unused", text |-> << >>, cs |-> "idle", sup |-> FALSE]
\* token: whether the access-token request of the attempt succeeded.
NoStart == [pc |-> "unused", capListening |-> FALSE, capMicOn |-> FALSE,
            capCs |-> "idle", token |-> "none"]
\* failed: stopAvatar or the grading request of the invocation failed.
NoEnd == [pc |-> "unused", failed |-> FALSE]

\* Two runs of the token route, compared with each other.
Runs == {1, 2}

\* A response of a route handler: its status and the one field of its body.
NoResponse == [status |-> 0, field |-> "none", value |-> ""]

\* No reply of the avatar service yet.
NoReply == [kind |-> "none", status |-> 0, text |-> "", json |-> "none", token |-> ""]

\* A run of POST /api/get-access-token that has not begun, on a server whose
\* HEYGEN_API_KEY is key ("" when unset).  sent: the x-api-key header of the
\* upstream request; logged: what the run wrote to the server console.
NoRun(key) ==
  [pc |-> "idle", env |-> key, sent |-> "", reply |-> NoReply,
   response |-> NoResponse, logged |-> ""]

CandidateIds == {1, 2}
Calls == 1..MaxCalls

\* An invocation of sendInterviewInvite that has not begun.  updates: the
\* update requests it issued; result: what it returned; threw: it threw.
NoCall ==
  [pc |-> "idle", candidateId |-> 0, updates |-> 0,
   result |-> [success |-> FALSE, error |-> ""], threw |-> FALSE]

InitComponent ==
  /\ now = 0
  /\ unmounted = FALSE
  /\ callStatus = "idle"
  /\ error = "null"
  /\ isMicOn = FALSE
  /\ isCameraOn = TRUE
  /\ isAvatarTalking = FALSE
  /\ isListening = FALSE
  /\ transcript = << >>
  /\ avatarRef = 0
  /\ userStreamRef = 0
  /\ audioStreamRef = 0
  /\ mediaRecorderRef = 0
  /\ deepgramSocketRef = 0
  /\ autoSendTimeoutRef = 0
  /\ pendingStreamRef = 0
  /\ conversationHistoryRef = << >>
  /\ videoSrc = 0
  /\ applied = [a \in Starts |-> 0]
  /\ cam = [a \in Starts |-> "none"]
  /\ camEnabled = [a \in Starts |-> TRUE]
  /\ stream = [r \in Relays |-> "none"]
  /\ sock = [r \in Relays |-> "none"]
  /\ rec = [r \in Relays |-> "none"]
  /\ timers = [t \in Timers |-> NoTimer]
  /\ avatar = [a \in Starts |-> [st |-> "none", ready |-> FALSE, talking |-> FALSE]]
  /\ start = [a \in Starts |-> NoStart]
  /\ end = [e \in Ends |-> NoEnd]
  /\ relayPc = [r \in Relays |-> "unused"]
  /\ relayCs = [r \in Relays |-> "idle"]
  /\ speakReqs = << >>
  /\ gradingReqs = << >>
  /\ chunks = 0
  /\ escaped = FALSE

\* The server before any request: no run of the token route has begun, the
\* Supabase environment is configured, the table holds one invitable
\* candidate per id and sendInterviewInvite has not been called.
InitServer ==
  /\ tokenRoute = [i \in Runs |-> NoRun("k1")]
  /\ supabaseEnv = "ok"
  /\ candidates = [id \in CandidateIds |->
                     [exists |-> TRUE, interview_token |-> "tok", status |-> "NEW"]]
  /\ invite = [c \in Calls |-> NoCall]

Init == InitComponent /\ InitServer

\* ------------------------------------------------------------- helpers
NextUnused(f, S) ==
  IF \E i \in S : f[i] = "unused"
    THEN CHOOSE i \in S : f[i] = "unused" /\ \A j \in S : j < i => f[j] # "unused"
    ELSE 0

\* The avatar <video> element exists only in the active render (lines 698-722).
avatarVideoRef == callStatus = "active"

\* Commit of the render that follows a block: the <video> of the active view
\* is mounted or unmounted, and the pending-stream effect runs when
\* callStatus changed (lines 122-127).
useEffectPendingStream(cs2, pend2, src2) ==
  IF cs2 # "active" THEN 0
  ELSE IF callStatus # "active" THEN pend2
  ELSE src2

\* applyStreamToVideo (lines 86-119) reaching line 94 with the stream of
\* session s: the count of its applications.
applyStreamToVideo(n, s) == IF s = 0 THEN n ELSE [n EXCEPT ![s] = @ + 1]

\* The applications made by the pending-stream effect in that commit.
useEffectApplied(cs2, pend2) ==
  IF cs2 = "active" /\ callStatus # "active"
    THEN applyStreamToVideo(applied, pend2) ELSE applied

\* A log that keeps only the newest entry.
addToConversationOverwrite(log, role, text) ==
  << [role |-> role,
      speaker |-> IF role = "interviewer" THEN "Wayne" ELSE candidateName,
      text |-> Trim(text),
      timestamp |-> now] >>

\* A log that grows at its front (unshift instead of push).
addToConversationUnshift(log, role, text) ==
  << [role |-> role,
      speaker |-> IF role = "interviewer" THEN "Wayne" ELSE candidateName,
      text |-> Trim(text),
      timestamp |-> now] >> \o log

\* addToConversation (lines 171-180): the log after the push; the entry is
\* stamped with new Date() at the push.
addToConversation(log, role, text) ==
  Append(log, [role |-> role,
               speaker |-> IF role = "interviewer" THEN "Wayne" ELSE candidateName,
               text |-> Trim(text),
               timestamp |-> now])

\* A guard that does not ask for an avatar session.
sendToAvatarPassesWithoutAvatar(cs, text) ==
  Trim(text) # << >> /\ cs = "active"

\* sendToAvatar (lines 183-198), as seen by a closure that captured call
\* status cs: whether it goes past the guard of line 184.
sendToAvatarPasses(cs, text) ==
  Trim(text) # << >> /\ avatarRef # 0 /\ cs = "active"

\* clearTimeout: a pending timer is cancelled, anything else is left alone.
\* A timer that is no longer pending keeps only how it ended.
Ended(tm, how) == [NoTimer EXCEPT !.st = how, !.sup = tm.sup]

\* A clearTimeout that cancels nothing.
clearTimeoutIgnored(ts, t) == ts

clearTimeout(ts, t) ==
  IF t # 0 /\ ts[t].st = "pending"
    THEN [ts EXCEPT ![t] = Ended(ts[t], "cleared")] ELSE ts

\* MediaRecorder.stop() throws InvalidStateError on an inactive recorder.
RecorderStopThrows ==
  mediaRecorderRef # 0 /\ rec[mediaRecorderRef] # "recording"

\* The relay's refs and the objects they refer to, as stopDeepgramListening
\* reads and writes them; threw records an exception leaving the call.
RelayState ==
  [timers |-> timers, autoSendTimeoutRef |-> autoSendTimeoutRef,
   rec |-> rec, mediaRecorderRef |-> mediaRecorderRef,
   sock |-> sock, deepgramSocketRef |-> deepgramSocketRef,
   stream |-> stream, audioStreamRef |-> audioStreamRef,
   threw |-> FALSE]

\* A stopDeepgramListening that forgets line 339 (mediaRecorderRef = null).
stopDeepgramKeepsRecorderRef(s) ==
  LET t1 == [s EXCEPT !.timers = clearTimeout(s.timers, s.autoSendTimeoutRef),
                      !.autoSendTimeoutRef = 0]
  IN IF s.mediaRecorderRef # 0 /\ s.rec[s.mediaRecorderRef] # "recording"
       THEN [t1 EXCEPT !.threw = TRUE]
       ELSE [t1 EXCEPT
               !.rec = [r \in Relays |->
                          IF (r = s.mediaRecorderRef \/ r = s.audioStreamRef)
                             /\ s.rec[r] = "recording"
                            THEN "inactive" ELSE s.rec[r]],
               !.sock = [r \in Relays |->
                           IF r # s.deepgramSocketRef THEN s.sock[r]
                           ELSE IF s.sock[r] = "open" THEN "closing"
                           ELSE IF s.sock[r] = "connecting" THEN "failing"
                           ELSE s.sock[r]],
               !.deepgramSocketRef = 0,
               !.stream = [r \in Relays |->
                             IF r = s.audioStreamRef /\ s.stream[r] = "live"
                               THEN "stopped" ELSE s.stream[r]],
               !.audioStreamRef = 0,
               !.threw = FALSE]

\* stopDeepgramListening (lines 329-356) as a function of the relay state:
\* each part is guarded by its ref (lines 331, 337, 343, 349).
stopDeepgram(s) ==
  LET t1 == [s EXCEPT !.timers = clearTimeout(s.timers, s.autoSendTimeoutRef),
                      !.autoSendTimeoutRef = 0]
  IN IF s.mediaRecorderRef # 0 /\ s.rec[s.mediaRecorderRef] # "recording"
       THEN [t1 EXCEPT !.threw = TRUE]
       ELSE [t1 EXCEPT
               !.rec = [r \in Relays |->
                          IF (r = s.mediaRecorderRef \/ r = s.audioStreamRef)
                             /\ s.rec[r] = "recording"
                            THEN "inactive" ELSE s.rec[r]],
               !.mediaRecorderRef = 0,
               !.sock = [r \in Relays |->
                           IF r # s.deepgramSocketRef THEN s.sock[r]
                           ELSE IF s.sock[r] = "open" THEN "closing"
                           ELSE IF s.sock[r] = "connecting" THEN "failing"
                           ELSE s.sock[r]],
               !.deepgramSocketRef = 0,
               !.stream = [r \in Relays |->
                             IF r = s.audioStreamRef /\ s.stream[r] = "live"
                               THEN "stopped" ELSE s.stream[r]],
               !.audioStreamRef = 0,
               !.threw = FALSE]

\* stopDeepgramListening (lines 329-356) when recorder.stop() throws: only
\* the timer part (lines 331-334) has run.
stopDeepgramListeningThrown ==
  /\ timers' = clearTimeout(timers, autoSendTimeoutRef)
  /\ autoSendTimeoutRef' = 0
  /\ UNCHANGED << mediaRecorderRef, deepgramSocketRef, audioStreamRef,
                  stream, sock, rec >>

\* stopDeepgramListening (lines 329-356) running to its end.  A recorder
\* stops recording when stopped or when the tracks of its stream end; close()
\* leaves an open socket closing, and fails a connecting one.
stopDeepgramListening ==
  /\ timers' = clearTimeout(timers, autoSendTimeoutRef)
  /\ autoSendTimeoutRef' = 0
  /\ rec' = [r \in Relays |->
               IF (r = mediaRecorderRef \/ r = audioStreamRef) /\ rec[r] = "recording"
                 THEN "inactive" ELSE rec[r]]
  /\ mediaRecorderRef' = 0
  /\ sock' = [r \in Relays |->
                IF r # deepgramSocketRef THEN sock[r]
                ELSE IF sock[r] = "open" THEN "closing"
                ELSE IF sock[r] = "connecting" THEN "failing"
                ELSE sock[r]]
  /\ deepgramSocketRef' = 0
  /\ stream' = [r \in Relays |->
                  IF r = audioStreamRef /\ stream[r] = "live" THEN "stopped"
                  ELSE stream[r]]
  /\ audioStreamRef' = 0

\* startDeepgramListening (lines 232-235) up to its first await: the key
\* request is in flight.  cs is the call status its sendToAvatar captured.
startDeepgramListening(cs) ==
  LET r == NextUnused(relayPc, Relays) IN
  /\ r # 0
  /\ relayPc' = [relayPc EXCEPT ![r] = "key"]
  /\ relayCs' = [relayCs EXCEPT ![r] = cs]

\* ------------------------------------------------------- startInterview
\* Lines 370-376 and 201-206: the click on "Join Interview" (rendered only
\* when idle, lines 601-631), up to the await of getUserMedia.
startInterview ==
  LET a == NextUnused([i \in Starts |-> start[i].pc], Starts) IN
  /\ callStatus = "idle"
  /\ ~unmounted
  /\ a # 0
  /\ callStatus' = "connecting"
  /\ error' = "null"
  /\ start' = [start EXCEPT ![a] =
                 [NoStart EXCEPT !.pc = "camera", !.capListening = isListening,
                                 !.capMicOn = isMicOn, !.capCs = callStatus]]
  /\ videoSrc' = useEffectPendingStream("connecting", pendingStreamRef, videoSrc)
  /\ UNCHANGED << isMicOn, isCameraOn, isAvatarTalking, isListening, transcript,
                  avatarRef, pendingStreamRef, avatar, applied, cameraVars,
                  relayRefs, relayObjs, relayProcs, logVars, end, gradingReqs,
                  chunks, escaped >>
  /\ UNCHANGED << now, unmounted, serverVars >>

\* initUserCamera (lines 201-218) after getUserMedia settled, then lines
\* 379-381: the token request is issued whether or not the camera came up.
initUserCamera(a, ok) ==
  /\ start[a].pc = "camera"
  /\ IF ok
       THEN /\ cam' = [cam EXCEPT ![a] = "live"]
            /\ userStreamRef' = a
            /\ isCameraOn' = TRUE
            /\ error' = error
       ELSE /\ error' = "Could not access camera"
            /\ UNCHANGED << cam, userStreamRef, isCameraOn >>
  /\ start' = [start EXCEPT ![a].pc = "token"]
  /\ UNCHANGED << callStatus, isMicOn, isAvatarTalking, isListening, transcript,
                  camEnabled, avatarVars, relayRefs, relayObjs, relayProcs,
                  logVars, end, gradingReqs, chunks, escaped >>
  /\ UNCHANGED << now, unmounted, serverVars >>

\* The catch of startInterview (lines 474-478).
startInterviewCatch(a, outcome, msg) ==
  /\ error' = msg
  /\ callStatus' = "idle"
  /\ start' = [start EXCEPT ![a].pc = "failed", ![a].token = outcome]
  /\ videoSrc' = useEffectPendingStream("idle", pendingStreamRef, videoSrc)

\* A token check that lets a non-success response through.
tokenRequestFailedOnlyRejected(outcome) == outcome = "rejected"

\* Lines 379-385: the request rejected, or tokenResponse.ok is false.
tokenRequestFailed(outcome) == outcome # "ok"

\* Lines 379-462: the token request settled.  A rejection, a non-success
\* status or an unreadable body goes to the catch; otherwise the avatar is
\* constructed, its handlers are registered and createStartAvatar is called.
tokenSettled(a, outcome) ==
  /\ start[a].pc = "token"
  /\ IF ~tokenRequestFailed(outcome)
       THEN /\ avatarRef' = a
            /\ avatar' = [avatar EXCEPT ![a].st = "starting"]
            /\ start' = [start EXCEPT ![a].pc = "create1",
                                       ![a].token = IF outcome = "ok" THEN "ok"
                                                    ELSE "failed"]
            /\ UNCHANGED << callStatus, error, videoSrc, pendingStreamRef >>
       ELSE /\ UNCHANGED << avatarRef, avatar, pendingStreamRef >>
            /\ startInterviewCatch(a, "failed",
                 IF outcome = "notOk" THEN "Failed to get access token"
                 ELSE "Failed to fetch")
  /\ UNCHANGED << isMicOn, isCameraOn, isAvatarTalking, isListening, transcript,
                  applied, cameraVars, relayRefs, relayObjs, relayProcs,
                  logVars, end, gradingReqs, chunks, escaped >>
  /\ UNCHANGED << now, unmounted, serverVars >>

\* An activation that speaks the welcome message without logging it.
startInterviewActivateUnlogged(a) ==
  /\ callStatus' = "active"
  /\ speakReqs' = Append(speakReqs, [avatar |-> a, text |-> welcomeMessage])
  /\ start' = [start EXCEPT ![a].pc = "speak"]
  /\ avatar' = [avatar EXCEPT ![a].st = "live"]
  /\ videoSrc' = useEffectPendingStream("active", pendingStreamRef, videoSrc)
  /\ applied' = useEffectApplied("active", pendingStreamRef)
  /\ UNCHANGED << error, avatarRef, pendingStreamRef, conversationHistoryRef >>

\* Lines 464-472: the session was created; the call becomes active, the
\* welcome message is logged and spoken.
startInterviewActivate(a) ==
  /\ callStatus' = "active"
  /\ conversationHistoryRef' =
       addToConversation(conversationHistoryRef, "interviewer", welcomeMessage)
  /\ speakReqs' = Append(speakReqs, [avatar |-> a, text |-> welcomeMessage])
  /\ start' = [start EXCEPT ![a].pc = "speak"]
  /\ avatar' = [avatar EXCEPT ![a].st = "live"]
  /\ videoSrc' = useEffectPendingStream("active", pendingStreamRef, videoSrc)
  /\ applied' = useEffectApplied("active", pendingStreamRef)
  /\ UNCHANGED << error, avatarRef, pendingStreamRef >>

\* Lines 443-462: createStartAvatar settled; on a rejection the fallback
\* avatar is tried once, and a second rejection goes to the catch.
createStartAvatarSettled(a, ok) ==
  /\ start[a].pc \in {"create1", "create2"}
  /\ IF ok
       THEN startInterviewActivate(a)
       ELSE IF start[a].pc = "create1"
         THEN /\ start' = [start EXCEPT ![a].pc = "create2"]
              /\ UNCHANGED << callStatus, error, videoSrc, applied, avatarRef,
                              avatar, pendingStreamRef, logVars >>
         ELSE /\ avatar' = [avatar EXCEPT ![a].st = "failed"]
              /\ UNCHANGED << avatarRef, pendingStreamRef, applied, logVars >>
              /\ startInterviewCatch(a, start[a].token, "Avatar creation failed")
  /\ UNCHANGED << isMicOn, isCameraOn, isAvatarTalking, isListening, transcript,
                  cameraVars, relayRefs, relayObjs, relayProcs, end,
                  gradingReqs, chunks, escaped >>
  /\ UNCHANGED << now, unmounted, serverVars >>

\* Lines 469-478: the welcome speak settled; a rejection goes to the catch.
welcomeSpeakSettled(a, ok) ==
  /\ start[a].pc = "speak"
  /\ IF ok
       THEN /\ start' = [start EXCEPT ![a].pc = "done"]
            /\ UNCHANGED << callStatus, error, videoSrc >>
       ELSE startInterviewCatch(a, start[a].token, "Speak failed")
  /\ UNCHANGED << isMicOn, isCameraOn, isAvatarTalking, isListening, transcript,
                  avatarRef, avatar, pendingStreamRef, applied, cameraVars,
                  relayRefs, relayObjs, relayProcs, logVars, end, gradingReqs,
                  chunks, escaped >>
  /\ UNCHANGED << now, unmounted, serverVars >>

\* ------------------------------------------------------ avatar callbacks
\* STREAM_READY handler (lines 394-418).  The service emits it once per
\* session, while the session is being created or after; detail may be null.
onStreamReady(a, hasDetail) ==
  /\ avatar[a].st \in {"starting", "live"}
  /\ ~avatar[a].ready
  /\ avatar' = [avatar EXCEPT ![a].ready = TRUE]
  /\ IF hasDetail
       THEN /\ pendingStreamRef' = a
            /\ videoSrc' = IF avatarVideoRef THEN a ELSE videoSrc
            /\ applied' = IF avatarVideoRef
                             THEN applyStreamToVideo(applied, a) ELSE applied
       ELSE UNCHANGED << pendingStreamRef, videoSrc, applied >>
  /\ UNCHANGED << reactVars, avatarRef, cameraVars, relayRefs, relayObjs,
                  relayProcs, logVars, start, end, gradingReqs, chunks,
                  escaped >>
  /\ UNCHANGED << now, unmounted, serverVars >>

\* A start-talking handler that switches the microphone toggle off.
onAvatarStartTalkingMutesMic(a) ==
  /\ avatar[a].st = "live"
  /\ ~avatar[a].talking
  /\ avatar' = [avatar EXCEPT ![a].talking = TRUE]
  /\ isAvatarTalking' = TRUE
  /\ isMicOn' = FALSE
  /\ UNCHANGED << callStatus, error, isCameraOn, isListening, transcript,
                  avatarRef, pendingStreamRef, videoSrc, applied, cameraVars,
                  relayRefs, relayObjs, relayProcs, logVars, start, end,
                  gradingReqs, chunks, escaped >>
  /\ UNCHANGED << now, unmounted, serverVars >>

\* AVATAR_START_TALKING handler (lines 420-426); isListening is the value
\* of the render in which startInterview was clicked.
onAvatarStartTalking(a) ==
  /\ avatar[a].st = "live"
  /\ ~avatar[a].talking
  /\ avatar' = [avatar EXCEPT ![a].talking = TRUE]
  /\ isAvatarTalking' = TRUE
  /\ IF start[a].capListening
       THEN IF RecorderStopThrows
              THEN /\ stopDeepgramListeningThrown
                   /\ escaped' = TRUE
                   /\ UNCHANGED << isListening, transcript >>
              ELSE /\ stopDeepgramListening
                   /\ isListening' = FALSE
                   /\ transcript' = << >>
                   /\ UNCHANGED escaped
       ELSE UNCHANGED << relayRefs, relayObjs, isListening, transcript, escaped >>
  /\ UNCHANGED << callStatus, error, isMicOn, isCameraOn, avatarRef,
                  pendingStreamRef, videoSrc, applied, cameraVars, relayProcs,
                  logVars, start, end, gradingReqs, chunks >>
  /\ UNCHANGED << now, unmounted, serverVars >>

\* AVATAR_STOP_TALKING handler (lines 428-434); isMicOn and
\* startDeepgramListening are those of the render of the click.
onAvatarStopTalking(a) ==
  /\ avatar[a].st = "live"
  /\ avatar[a].talking
  /\ avatar' = [avatar EXCEPT ![a].talking = FALSE]
  /\ isAvatarTalking' = FALSE
  /\ IF start[a].capMicOn
       THEN startDeepgramListening(start[a].capCs)
       ELSE UNCHANGED relayProcs
  /\ UNCHANGED << callStatus, error, isMicOn, isCameraOn, isListening,
                  transcript, avatarRef, pendingStreamRef, videoSrc, applied,
                  cameraVars, relayRefs, relayObjs, logVars, start, end,
                  gradingReqs, chunks, escaped >>
  /\ UNCHANGED << now, unmounted, serverVars >>

\* STREAM_DISCONNECTED handler (lines 436-439): emitted when a live session
\* drops, or after stopAvatar.
onStreamDisconnected(a) ==
  /\ avatar[a].st \in {"live", "stopped"}
  /\ avatar' = [avatar EXCEPT ![a].st = "closed", ![a].talking = FALSE]
  /\ callStatus' = "ended"
  /\ videoSrc' = useEffectPendingStream("ended", pendingStreamRef, videoSrc)
  /\ UNCHANGED << error, isMicOn, isCameraOn, isAvatarTalking, isListening,
                  transcript, avatarRef, pendingStreamRef, applied, cameraVars,
                  relayRefs, relayObjs, relayProcs, logVars, start, end,
                  gradingReqs, chunks, escaped >>
  /\ UNCHANGED << now, unmounted, serverVars >>

\* --------------------------------------------------------- endInterview
\* toLocaleTimeString (lines 506-510, 490-493) renders the time of day: two
\* instants a whole day apart render alike.
TicksPerDay == 2

toLocaleTimeString(t) == t % TicksPerDay

\* toLocaleDateString (lines 484-489) renders the calendar day.
toLocaleDateString(t) == t \div TicksPerDay

\* One line group of formatTranscript (lines 506-515).
formatEntry(entry) ==
  << [kind |-> "label",
      time |-> toLocaleTimeString(entry.timestamp),
      role |-> IF entry.role = "interviewer" THEN "INTERVIEWER" ELSE "CANDIDATE",
      speaker |-> entry.speaker],
     [kind |-> "text", text |-> entry.text],
     [kind |-> "blank"] >>

\* A forEach that walks the log from its end.
RECURSIVE formatEntriesNewestFirst(_)
formatEntriesNewestFirst(log) ==
  IF log = << >> THEN << >>
  ELSE formatEntriesNewestFirst(Tail(log)) \o formatEntry(Head(log))

\* formatTranscript (lines 482-523): header, one group per entry, footer.
RECURSIVE formatEntries(_)
formatEntries(log) ==
  IF log = << >> THEN << >>
  ELSE formatEntry(Head(log)) \o formatEntries(Tail(log))

formatTranscript(log) ==
  << [kind |-> "header", candidate |-> candidateName,
      date |-> toLocaleDateString(now), time |-> toLocaleTimeString(now)] >>
  \o formatEntries(log)
  \o << [kind |-> "footer"] >>

\* Lines 557-569: the transcript is formatted and the grading request sent.
issueGrading(cs) ==
  gradingReqs' = Append(gradingReqs,
    [candidateId |-> candidateId,
     transcript |-> formatTranscript(conversationHistoryRef),
     status |-> cs])

\* An endInterview that leaves the camera alone.
stopUserCameraSkipped == UNCHANGED << cam, userStreamRef >>

\* Lines 535-538: the tracks of the camera stream are stopped and the ref
\* is cleared.
stopUserCamera ==
  /\ cam' = [a \in Starts |->
               IF a = userStreamRef /\ cam[a] = "live" THEN "stopped" ELSE cam[a]]
  /\ userStreamRef' = 0

\* Lines 526-543 (and to 569 when there is no avatar): the click on "End
\* interview", rendered only in the active view (lines 796-803).
endInterview ==
  LET e == NextUnused([i \in Ends |-> end[i].pc], Ends) IN
  /\ callStatus = "active"
  /\ ~unmounted
  /\ e # 0
  /\ callStatus' = "analyzing"
  /\ videoSrc' = 0
  /\ IF RecorderStopThrows
       THEN /\ stopDeepgramListeningThrown
            /\ escaped' = TRUE
            /\ end' = [end EXCEPT ![e].pc = "threw"]
            /\ UNCHANGED << isListening, transcript, isMicOn, cameraVars,
                            avatar, gradingReqs >>
       ELSE /\ stopDeepgramListening
            /\ isListening' = FALSE
            /\ transcript' = << >>
            /\ isMicOn' = FALSE
            /\ stopUserCamera
            /\ IF avatarRef # 0
                 THEN /\ avatar' = [avatar EXCEPT ![avatarRef].st =
                            IF @ \in {"starting", "live"} THEN "stopped" ELSE @]
                      /\ end' = [end EXCEPT ![e].pc = "stopAvatar"]
                      /\ UNCHANGED gradingReqs
                 ELSE /\ issueGrading("analyzing")
                      /\ end' = [end EXCEPT ![e].pc = "grading"]
                      /\ UNCHANGED avatar
            /\ UNCHANGED << camEnabled, escaped >>
  /\ UNCHANGED << error, isCameraOn, isAvatarTalking, avatarRef,
                  pendingStreamRef, applied, relayProcs, logVars, start,
                  chunks >>
  /\ UNCHANGED << now, unmounted, serverVars >>

\* A stopAvatar whose rejection is not caught: it leaves endInterview.
stopAvatarSettledUncaught(e, ok) ==
  /\ end[e].pc = "stopAvatar"
  /\ IF ok
       THEN /\ avatarRef' = 0
            /\ videoSrc' = 0
            /\ issueGrading(callStatus)
            /\ end' = [end EXCEPT ![e].pc = "grading"]
            /\ UNCHANGED escaped
       ELSE /\ end' = [end EXCEPT ![e].pc = "threw", ![e].failed = TRUE]
            /\ escaped' = TRUE
            /\ UNCHANGED << avatarRef, videoSrc, gradingReqs >>
  /\ UNCHANGED << reactVars, pendingStreamRef, applied, avatar, cameraVars,
                  relayRefs, relayObjs, relayProcs, logVars, start, chunks >>
  /\ UNCHANGED << now, unmounted, serverVars >>

\* An endInterview that keeps the avatar ref after stopAvatar.
stopAvatarSettledKeepsRef(e, ok) ==
  /\ end[e].pc = "stopAvatar"
  /\ videoSrc' = 0
  /\ issueGrading(callStatus)
  /\ end' = [end EXCEPT ![e].pc = "grading", ![e].failed = ~ok]
  /\ UNCHANGED << reactVars, avatarRef, pendingStreamRef, applied, avatar,
                  cameraVars, relayRefs, relayObjs, relayProcs, logVars, start,
                  chunks, escaped >>
  /\ UNCHANGED << now, unmounted, serverVars >>

\* Lines 543-569: stopAvatar settled (a rejection is caught and logged).
stopAvatarSettled(e, ok) ==
  /\ end[e].pc = "stopAvatar"
  /\ avatarRef' = 0
  /\ videoSrc' = 0
  /\ issueGrading(callStatus)
  /\ end' = [end EXCEPT ![e].pc = "grading", ![e].failed = ~ok]
  /\ UNCHANGED << reactVars, pendingStreamRef, applied, avatar, cameraVars,
                  relayRefs, relayObjs, relayProcs, logVars, start, chunks,
                  escaped >>
  /\ UNCHANGED << now, unmounted, serverVars >>

\* An end of endInterview without the catch of line 577: a failed grading
\* request leaves the handler by exception, before line 582.
endInterviewFinishUncaught(e, outcome) ==
  IF outcome = "ok"
    THEN /\ callStatus' = "ended"
         /\ end' = [end EXCEPT ![e].pc = "done"]
         /\ videoSrc' = useEffectPendingStream("ended", pendingStreamRef, videoSrc)
         /\ UNCHANGED escaped
    ELSE /\ end' = [end EXCEPT ![e].pc = "threw", ![e].failed = TRUE]
         /\ escaped' = TRUE
         /\ UNCHANGED << callStatus, videoSrc >>

\* Lines 571-582: the grading request settled.  A rejection, a non-success
\* status and an unreadable body are caught at line 577.
endInterviewFinish(e, outcome) ==
  /\ callStatus' = "ended"
  /\ end' = [end EXCEPT ![e].pc = "done",
                         ![e].failed = @ \/ outcome # "ok"]
  /\ videoSrc' = useEffectPendingStream("ended", pendingStreamRef, videoSrc)
  /\ UNCHANGED escaped

gradingSettled(e, outcome) ==
  /\ end[e].pc = "grading"
  /\ endInterviewFinish(e, outcome)
  /\ UNCHANGED << error, isMicOn, isCameraOn, isAvatarTalking, isListening,
                  transcript, avatarRef, pendingStreamRef, applied, avatar,
                  cameraVars, relayRefs, relayObjs, relayProcs, logVars, start,
                  gradingReqs, chunks >>
  /\ UNCHANGED << now, unmounted, serverVars >>

\* -------------------------------------------------------------- toggles
\* toggleCamera (lines 221-229); the button is in the active view.
toggleCamera ==
  /\ callStatus = "active"
  /\ ~unmounted
  /\ IF userStreamRef # 0
       THEN /\ camEnabled' = [camEnabled EXCEPT ![userStreamRef] = ~@]
            /\ isCameraOn' = ~camEnabled[userStreamRef]
       ELSE UNCHANGED << camEnabled, isCameraOn >>
  /\ UNCHANGED << callStatus, error, isMicOn, isAvatarTalking, isListening,
                  transcript, userStreamRef, cam, avatarVars, relayRefs,
                  relayObjs, relayProcs, logVars, start, end, gradingReqs,
                  chunks, escaped >>
  /\ UNCHANGED << now, unmounted, serverVars >>

\* toggleMic (lines 359-367); the button is in the active view and disabled
\* while the avatar talks (lines 770-772).
toggleMic ==
  /\ callStatus = "active"
  /\ ~unmounted
  /\ ~isAvatarTalking
  /\ IF isMicOn
       THEN /\ IF RecorderStopThrows
                 THEN /\ stopDeepgramListeningThrown
                      /\ escaped' = TRUE
                      /\ UNCHANGED << isListening, transcript, isMicOn >>
                 ELSE /\ stopDeepgramListening
                      /\ isListening' = FALSE
                      /\ transcript' = << >>
                      /\ isMicOn' = FALSE
                      /\ UNCHANGED escaped
            /\ UNCHANGED relayProcs
       ELSE /\ isMicOn' = TRUE
            /\ startDeepgramListening(callStatus)
            /\ UNCHANGED << relayRefs, relayObjs, isListening, transcript,
                            escaped >>
  /\ UNCHANGED << callStatus, error, isCameraOn, isAvatarTalking, avatarVars,
                  cameraVars, logVars, start, end, gradingReqs, chunks >>
  /\ UNCHANGED << now, unmounted, serverVars >>

\* ------------------------------------------------ startDeepgramListening
\* The catch of startDeepgramListening (lines 322-325).
startDeepgramCatch(r) ==
  /\ error' = "Could not access microphone"
  /\ relayPc' = [relayPc EXCEPT ![r] = "failed"]
  /\ UNCHANGED << relayRefs, relayObjs >>

\* Lines 235-246: the key request settled (a rejection, a non-success
\* status or an unreadable body throws); then getUserMedia is awaited.
deepgramKeySettled(r, ok) ==
  /\ relayPc[r] = "key"
  /\ IF ok
       THEN /\ relayPc' = [relayPc EXCEPT ![r] = "mic"]
            /\ UNCHANGED << error, relayRefs, relayObjs >>
       ELSE startDeepgramCatch(r)
  /\ UNCHANGED << callStatus, isMicOn, isCameraOn, isAvatarTalking, isListening,
                  transcript, relayCs, avatarVars, cameraVars, logVars, start,
                  end, gradingReqs, chunks, escaped >>
  /\ UNCHANGED << now, unmounted, serverVars >>

\* Lines 240-321: the microphone stream was acquired (or refused); the
\* stream and a new socket are stored in the refs.
microphoneSettled(r, ok) ==
  /\ relayPc[r] = "mic"
  /\ IF ok
       THEN /\ stream' = [stream EXCEPT ![r] = "live"]
            /\ audioStreamRef' = r
            /\ sock' = [sock EXCEPT ![r] = "connecting"]
            /\ deepgramSocketRef' = r
            /\ relayPc' = [relayPc EXCEPT ![r] = "done"]
            /\ UNCHANGED << error, mediaRecorderRef, autoSendTimeoutRef, rec,
                            timers >>
       ELSE startDeepgramCatch(r)
  /\ UNCHANGED << callStatus, isMicOn, isCameraOn, isAvatarTalking, isListening,
                  transcript, relayCs, avatarVars, cameraVars, logVars, start,
                  end, gradingReqs, chunks, escaped >>
  /\ UNCHANGED << now, unmounted, serverVars >>

\* socket.onopen (lines 263-280).  MediaRecorder.start() throws when the
\* stream has no live track.
socketOnOpen(r) ==
  /\ sock[r] = "connecting"
  /\ sock' = [sock EXCEPT ![r] = "open"]
  /\ isListening' = TRUE
  /\ IF stream[r] = "live"
       THEN /\ rec' = [rec EXCEPT ![r] = "recording"]
            /\ mediaRecorderRef' = r
            /\ UNCHANGED escaped
       ELSE /\ rec' = [rec EXCEPT ![r] = "inactive"]
            /\ escaped' = TRUE
            /\ UNCHANGED mediaRecorderRef
  /\ UNCHANGED << callStatus, error, isMicOn, isCameraOn, isAvatarTalking,
                  transcript, audioStreamRef, deepgramSocketRef,
                  autoSendTimeoutRef, stream, timers, relayProcs, avatarVars,
                  cameraVars, logVars, start, end, gradingReqs, chunks >>
  /\ UNCHANGED << now, unmounted, serverVars >>

\* mediaRecorder.ondataavailable (lines 272-276) with a non-empty chunk.
recorderOnDataAvailable(r) ==
  /\ rec[r] = "recording"
  /\ chunks < MaxChunks
  /\ chunks' = IF sock[r] = "open" THEN chunks + 1 ELSE chunks
  /\ UNCHANGED << reactVars, avatarVars, cameraVars, relayRefs, relayObjs,
                  relayProcs, logVars, start, end, gradingReqs, escaped >>
  /\ UNCHANGED << now, unmounted, serverVars >>

\* Arming that forgets the clearTimeout of lines 295-297.
armAutoSendNoClear(ts, t, text, cs) ==
  [i \in Timers |->
     IF i = t THEN [st |-> "pending", text |-> text, cs |-> cs, sup |-> FALSE]
     ELSE IF ts[i].st = "pending" THEN [ts[i] EXCEPT !.sup = TRUE]
     ELSE ts[i]]

\* Lines 293-303: a final segment arms the debounce timer, cancelling the
\* one the ref holds.  A pending timer that a later final segment meets is
\* marked superseded (sup).
armAutoSend(ts, t, text, cs) ==
  [i \in Timers |->
     IF i = t THEN [st |-> "pending", text |-> text, cs |-> cs, sup |-> FALSE]
     ELSE IF ts[i].st = "pending"
            THEN clearTimeout([ts EXCEPT ![i].sup = TRUE], autoSendTimeoutRef)[i]
     ELSE ts[i]]

\* An onmessage that sets up the auto-send for interim results too.
isFinalResultOrInterim(text, isFinal) == Len(Trim(text)) > 0

\* Line 293: the result is final and not blank.
isFinalResult(text, isFinal) == isFinal /\ Len(Trim(text)) > 0

\* socket.onmessage (lines 282-309): messages are delivered to an open
\* socket; an unparsable one is caught and logged.
socketOnMessage(r, parsable, text, isFinal) ==
  LET t == NextUnused([i \in Timers |-> timers[i].st], Timers) IN
  /\ sock[r] = "open"
  /\ IF parsable /\ text # << >> /\ Trim(text) # << >>
       THEN /\ transcript' = text
            /\ IF isFinalResult(text, isFinal)
                 THEN /\ t # 0
                      /\ timers' = armAutoSend(timers, t, text, relayCs[r])
                      /\ autoSendTimeoutRef' = t
                 ELSE UNCHANGED << timers, autoSendTimeoutRef >>
       ELSE UNCHANGED << transcript, timers, autoSendTimeoutRef >>
  /\ UNCHANGED << callStatus, error, isMicOn, isCameraOn, isAvatarTalking,
                  isListening, audioStreamRef, mediaRecorderRef,
                  deepgramSocketRef, stream, sock, rec, relayProcs,
                  avatarVars, cameraVars, logVars, start, end, gradingReqs,
                  chunks, escaped >>
  /\ UNCHANGED << now, unmounted, serverVars >>

\* A drop of the recognizer connection that ends the call, as the avatar's
\* disconnect does.
socketDropsEndsCall(r, withError) ==
  /\ sock[r] \in {"connecting", "open"}
  /\ sock' = [sock EXCEPT ![r] = "closed"]
  /\ error' = IF withError THEN "Voice recognition error" ELSE error
  /\ isListening' = FALSE
  /\ callStatus' = "ended"
  /\ videoSrc' = useEffectPendingStream("ended", pendingStreamRef, videoSrc)
  /\ UNCHANGED << isMicOn, isCameraOn, isAvatarTalking, transcript,
                  relayRefs, stream, rec, timers, relayProcs, avatarRef, avatar,
                  pendingStreamRef, applied, cameraVars, logVars, start, end,
                  gradingReqs, chunks, escaped >>
  /\ UNCHANGED << now, unmounted, serverVars >>

\* socket.onerror and socket.onclose (lines 311-319) when the connection
\* drops: the error event, if any, is followed at once by the close event.
socketDrops(r, withError) ==
  /\ sock[r] \in {"connecting", "open"}
  /\ sock' = [sock EXCEPT ![r] = "closed"]
  /\ error' = IF withError THEN "Voice recognition error" ELSE error
  /\ isListening' = FALSE
  /\ UNCHANGED << callStatus, isMicOn, isCameraOn, isAvatarTalking, transcript,
                  relayRefs, stream, rec, timers, relayProcs, avatarVars,
                  cameraVars, logVars, start, end, gradingReqs, chunks,
                  escaped >>
  /\ UNCHANGED << now, unmounted, serverVars >>

\* socket.onclose (lines 316-319), and onerror before it for a socket closed
\* while connecting, once close() of stopDeepgramListening has completed.
socketOnClose(r) ==
  /\ sock[r] \in {"closing", "failing"}
  /\ sock' = [sock EXCEPT ![r] = "closed"]
  /\ error' = IF sock[r] = "failing" THEN "Voice recognition error" ELSE error
  /\ isListening' = FALSE
  /\ UNCHANGED << callStatus, isMicOn, isCameraOn, isAvatarTalking, transcript,
                  relayRefs, stream, rec, timers, relayProcs, avatarVars,
                  cameraVars, logVars, start, end, gradingReqs, chunks,
                  escaped >>
  /\ UNCHANGED << now, unmounted, serverVars >>

\* A sendToAvatar that speaks without logging the utterance.
sendToAvatarUnlogged(t) ==
  IF sendToAvatarPasses(timers[t].cs, timers[t].text)
    THEN /\ transcript' = << >>
         /\ speakReqs' = Append(speakReqs,
                                [avatar |-> avatarRef, text |-> timers[t].text])
         /\ timers' = [timers EXCEPT ![t] = Ended(timers[t], "fired")]
         /\ UNCHANGED conversationHistoryRef
    ELSE /\ timers' = [timers EXCEPT ![t] = Ended(timers[t], "fired")]
         /\ UNCHANGED << conversationHistoryRef, transcript, speakReqs >>

\* The debounce timer fires (lines 300-302) and calls sendToAvatar (lines
\* 183-198) of the render that created the socket.
sendToAvatar(t) ==
  IF sendToAvatarPasses(timers[t].cs, timers[t].text)
    THEN /\ conversationHistoryRef' =
              addToConversation(conversationHistoryRef, "candidate", timers[t].text)
         /\ transcript' = << >>
         /\ speakReqs' = Append(speakReqs,
                                [avatar |-> avatarRef, text |-> timers[t].text])
         /\ timers' = [timers EXCEPT ![t] = Ended(timers[t], "fired")]
    ELSE /\ timers' = [timers EXCEPT ![t] = Ended(timers[t], "fired")]
         /\ UNCHANGED << conversationHistoryRef, transcript, speakReqs >>

autoSendTimeout(t) ==
  /\ timers[t].st = "pending"
  /\ sendToAvatar(t)
  /\ UNCHANGED << callStatus, error, isMicOn, isCameraOn, isAvatarTalking,
                  isListening, relayRefs, stream, sock, rec, relayProcs,
                  avatarVars, cameraVars, start, end, gradingReqs, chunks,
                  escaped >>
  /\ UNCHANGED << now, unmounted, serverVars >>

\* ----------------------------------------------------------- environment
\* Time passes: the clock new Date() reads (line 176) moves on.
tick ==
  /\ now < MaxClock
  /\ now' = now + 1
  /\ UNCHANGED << reactVars, avatarVars, cameraVars, relayRefs, relayObjs,
                  relayProcs, logVars, start, end, gradingReqs, chunks,
                  escaped, unmounted, serverVars >>

\* The cleanup of the unmount effect (lines 586-596): the relay is stopped,
\* the camera tracks are stopped and stopAvatar is called with its rejection
\* caught; the refs of the camera and the avatar are kept.  State setters
\* have no effect on a component that is unmounting.
unmount ==
  /\ ~unmounted
  /\ unmounted' = TRUE
  /\ IF RecorderStopThrows
       THEN /\ stopDeepgramListeningThrown
            /\ escaped' = TRUE
            /\ UNCHANGED << cam, avatar >>
       ELSE /\ stopDeepgramListening
            /\ cam' = [a \in Starts |->
                         IF a = userStreamRef /\ cam[a] = "live"
                           THEN "stopped" ELSE cam[a]]
            /\ avatar' = IF avatarRef = 0 THEN avatar
                         ELSE [avatar EXCEPT ![avatarRef].st =
                                 IF @ \in {"starting", "live"} THEN "stopped" ELSE @]
            /\ UNCHANGED escaped
  /\ UNCHANGED << reactVars, avatarRef, pendingStreamRef, videoSrc, applied,
                  userStreamRef, camEnabled, relayProcs, logVars, start, end,
                  gradingReqs, chunks, now, serverVars >>

\* ------------------------------------------------------ token route
\* POST /api/get-access-token (route.ts, lines 3-40).
ApiKeys == {"", "k1", "k2"}

\* What the avatar service may answer: the fetch fails; a status that is not
\* ok, with an error text that may quote the key it was sent; or an ok
\* status with a body that is not JSON, has no data member, has a data
\* member without a token, or carries a token.
Replies ==
  {[kind |-> "throw", status |-> 0, text |-> "", json |-> "none", token |-> ""]}
  \cup [kind : {"notOk"}, status : {401, 500}, text : {"denied", "k1", "k2"},
        json : {"none"}, token : {""}]
  \cup [kind : {"ok"}, status : {200}, text : {""},
        json : {"unparsable", "noData", "noToken"}, token : {""}]
  \cup [kind : {"ok"}, status : {200}, text : {""},
        json : {"token"}, token : {"t1", "t2", "k1"}]

\* An error body that names the key the request was made with.
upstreamErrorQuotesKey(run, reply) ==
  [status |-> reply.status, field |-> "error", value |-> run.sent]

\* Lines 22-29: the response to an upstream status that is not ok.
upstreamError(run, reply) ==
  [status |-> reply.status, field |-> "error",
   value |-> "Failed to get access token"]

\* Lines 33-38: the catch of the route.
internalServerError ==
  [status |-> 500, field |-> "error", value |-> "Internal server error"]

\* Lines 5-20: the key is read; without one the route answers at once,
\* otherwise it is sent upstream in the x-api-key header.
POST(i) ==
  /\ tokenRoute[i].pc = "idle"
  /\ tokenRoute' =
       [tokenRoute EXCEPT ![i] =
          LET run == tokenRoute[i] IN
          IF run.env = ""
            THEN [run EXCEPT !.pc = "done",
                             !.response = [status |-> 500, field |-> "error",
                                           value |-> "HEYGEN_API_KEY not configured"]]
            ELSE [run EXCEPT !.pc = "fetching", !.sent = run.env]]
  /\ UNCHANGED << reactVars, avatarVars, cameraVars, relayRefs, relayObjs,
                  relayProcs, logVars, start, end, gradingReqs, chunks,
                  escaped, now, unmounted, supabaseEnv, candidates, invite >>

\* Lines 14-38: the upstream fetch settled.  A failed fetch, a body that is
\* not JSON (response.json() rejects) and a body without data (data.data.token
\* throws) go to the catch; a data member without a token yields a body with
\* no field.
tokenFetchSettled(i, reply) ==
  /\ tokenRoute[i].pc = "fetching"
  /\ tokenRoute' =
       [tokenRoute EXCEPT ![i] =
          [tokenRoute[i] EXCEPT
             !.pc = "done",
             !.reply = reply,
             !.logged = IF reply.kind = "notOk" THEN reply.text
                        ELSE IF reply.kind = "throw"
                                \/ reply.json \in {"unparsable", "noData"}
                               THEN "Error fetching HeyGen token"
                        ELSE "",
             !.response =
               IF reply.kind = "throw" THEN internalServerError
               ELSE IF reply.kind = "notOk"
                      THEN upstreamError(tokenRoute[i], reply)
               ELSE IF reply.json \in {"unparsable", "noData"}
                      THEN internalServerError
               ELSE IF reply.json = "noToken"
                      THEN [status |-> 200, field |-> "none", value |-> ""]
               ELSE [status |-> 200, field |-> "token", value |-> reply.token]]]
  /\ UNCHANGED << reactVars, avatarVars, cameraVars, relayRefs, relayObjs,
                  relayProcs, logVars, start, end, gradingReqs, chunks,
                  escaped, now, unmounted, supabaseEnv, candidates, invite >>

\* ------------------------------------------------- sendInterviewInvite
\* sendInterviewInvite (sendInvite.ts, lines 13-63).  The environment holds
\* both Supabase settings ("ok"), lacks the url or the key, or holds a url
\* createClient rejects by throwing ("badUrl").
SupabaseEnvs == {"ok", "noUrl", "noKey", "badUrl"}

\* The rows a candidate id may have: none, one without an interview token,
\* one with a token.
CandidateRows ==
  {[exists |-> FALSE, interview_token |-> "", status |-> "NEW"],
   [exists |-> TRUE, interview_token |-> "", status |-> "NEW"],
   [exists |-> TRUE, interview_token |-> "tok", status |-> "NEW"]}

Failure(msg) == [success |-> FALSE, error |-> msg]

\* A catch that lets the exception out of the action.
sendInviteCatchRethrows(call) ==
  [call EXCEPT !.pc = "done", !.threw = TRUE]

\* Lines 59-62: the catch of sendInterviewInvite.
sendInviteCatch(call) ==
  [call EXCEPT !.pc = "done", !.result = Failure("Failed to send invite")]

\* A token check that lets every candidate through.
hasInterviewTokenOrNot(row) == TRUE

\* Line 35: the candidate has an interview token.
hasInterviewToken(row) == row.interview_token # ""

\* Lines 14-29: the configuration is read and the candidate is requested.
sendInterviewInvite(c, id) ==
  /\ invite[c].pc = "idle"
  /\ invite' =
       [invite EXCEPT ![c] =
          LET call == [invite[c] EXCEPT !.candidateId = id] IN
          IF supabaseEnv \in {"noUrl", "noKey"}
            THEN [call EXCEPT !.pc = "done",
                              !.result = Failure("Supabase not configured")]
          ELSE IF supabaseEnv = "badUrl" THEN sendInviteCatch(call)
          ELSE [call EXCEPT !.pc = "fetching"]]
  /\ UNCHANGED << reactVars, avatarVars, cameraVars, relayRefs, relayObjs,
                  relayProcs, logVars, start, end, gradingReqs, chunks,
                  escaped, now, unmounted, tokenRoute, supabaseEnv,
                  candidates >>

\* Lines 25-52: the select settled.  single() reports an error when no row
\* matches; the request may also fail ("error") or reject ("throws").  With
\* a candidate that has a token the update of its status is issued.
candidateFetchSettled(c, outcome) ==
  LET call == invite[c]
      row == candidates[call.candidateId] IN
  /\ call.pc = "fetching"
  /\ invite' =
       [invite EXCEPT ![c] =
          IF outcome = "throws" THEN sendInviteCatch(call)
          ELSE IF outcome = "error" \/ ~row.exists
            THEN [call EXCEPT !.pc = "done",
                              !.result = Failure("Candidate not found")]
          ELSE IF ~hasInterviewToken(row)
            THEN [call EXCEPT !.pc = "done",
                              !.result = Failure("No interview token found")]
          ELSE [call EXCEPT !.pc = "updating", !.updates = @ + 1]]
  /\ UNCHANGED << reactVars, avatarVars, cameraVars, relayRefs, relayObjs,
                  relayProcs, logVars, start, end, gradingReqs, chunks,
                  escaped, now, unmounted, tokenRoute, supabaseEnv,
                  candidates >>

\* Lines 49-58: the update settled: applied ("ok"), refused with an error, or
\* the request rejected.
statusUpdateSettled(c, outcome) ==
  LET call == invite[c] IN
  /\ call.pc = "updating"
  /\ candidates' =
       IF outcome = "ok"
         THEN [candidates EXCEPT ![call.candidateId].status = "INVITE_SENT"]
         ELSE candidates
  /\ invite' =
       [invite EXCEPT ![c] =
          IF outcome = "throws" THEN sendInviteCatch(call)
          ELSE IF outcome = "error"
            THEN [call EXCEPT !.pc = "done",
                              !.result = Failure("Failed to update status")]
          ELSE [call EXCEPT !.pc = "done",
                            !.result = [success |-> TRUE, error |-> ""]]]
  /\ UNCHANGED << reactVars, avatarVars, cameraVars, relayRefs, relayObjs,
                  relayProcs, logVars, start, end, gradingReqs, chunks,
                  escaped, now, unmounted, tokenRoute, supabaseEnv >>

\* ------------------------------------------------------ specifications
\* Every operation of the component.
Next ==
  \/ startInterview
  \/ \E a \in Starts, ok \in BOOLEAN : initUserCamera(a, ok)
  \/ \E a \in Starts, o \in {"ok", "notOk", "rejected"} : tokenSettled(a, o)
  \/ \E a \in Starts, ok \in BOOLEAN : createStartAvatarSettled(a, ok)
  \/ \E a \in Starts, ok \in BOOLEAN : welcomeSpeakSettled(a, ok)
  \/ \E a \in Starts, d \in BOOLEAN : onStreamReady(a, d)
  \/ \E a \in Starts : onAvatarStartTalking(a)
  \/ \E a \in Starts : onAvatarStopTalking(a)
  \/ \E a \in Starts : onStreamDisconnected(a)
  \/ endInterview
  \/ \E e \in Ends, ok \in BOOLEAN : stopAvatarSettled(e, ok)
  \/ \E e \in Ends, o \in {"ok", "notOk", "rejected"} : gradingSettled(e, o)
  \/ toggleCamera
  \/ toggleMic
  \/ \E r \in Relays, ok \in BOOLEAN : deepgramKeySettled(r, ok)
  \/ \E r \in Relays, ok \in BOOLEAN : microphoneSettled(r, ok)
  \/ \E r \in Relays : socketOnOpen(r)
  \/ \E r \in Relays : recorderOnDataAvailable(r)
  \/ \E r \in Relays, p \in BOOLEAN, x \in MsgTexts, f \in BOOLEAN :
       socketOnMessage(r, p, x, f)
  \/ \E r \in Relays, w \in BOOLEAN : socketDrops(r, w)
  \/ \E r \in Relays : socketOnClose(r)
  \/ \E t \in Timers : autoSendTimeout(t)
  \/ tick
  \/ unmount

Spec == Init /\ [][Next]_vars

\* The session life cycle: startInterview, the avatar's talking and
\* disconnect callbacks, endInterview and the camera toggle, from the
\* mounted component.  The arrival of the avatar stream is in NextRestart.
NextSession ==
  \/ startInterview
  \/ \E a \in Starts, ok \in BOOLEAN : initUserCamera(a, ok)
  \/ \E a \in Starts, o \in {"ok", "notOk", "rejected"} : tokenSettled(a, o)
  \/ \E a \in Starts, ok \in BOOLEAN : createStartAvatarSettled(a, ok)
  \/ \E a \in Starts, ok \in BOOLEAN : welcomeSpeakSettled(a, ok)
  \/ \E a \in Starts : onAvatarStartTalking(a)
  \/ \E a \in Starts : onAvatarStopTalking(a)
  \/ \E a \in Starts : onStreamDisconnected(a)
  \/ endInterview
  \/ \E e \in Ends, ok \in BOOLEAN : stopAvatarSettled(e, ok)
  \/ \E e \in Ends, o \in {"ok", "notOk", "rejected"} : gradingSettled(e, o)
  \/ toggleCamera

WithinAttempts == \A a \in Starts : a > MaxAttempts => start[a].pc = "unused"

SpecSession == Init /\ [][NextSession /\ WithinAttempts']_vars

\* Repeated start attempts: startInterview with its failures, and the
\* avatar stream arriving before or after the call becomes active.
NextRestart ==
  \/ startInterview
  \/ \E a \in Starts, ok \in BOOLEAN : initUserCamera(a, ok)
  \/ \E a \in Starts, o \in {"ok", "notOk", "rejected"} : tokenSettled(a, o)
  \/ \E a \in Starts, ok \in BOOLEAN : createStartAvatarSettled(a, ok)
  \/ \E a \in Starts, ok \in BOOLEAN : welcomeSpeakSettled(a, ok)
  \/ \E a \in Starts, d \in BOOLEAN : onStreamReady(a, d)

SpecRestart == Init /\ [][NextRestart]_vars

\* The state in which the first startInterview has made the call active
\* (lines 370-472 with no failure): the welcome message is logged and its
\* speak request is in flight.  The camera came up or was refused.
InitActive ==
  /\ InitServer
  /\ now = 0
  /\ unmounted = FALSE
  /\ callStatus = "active"
  /\ error \in {"null", "Could not access camera"}
  /\ isMicOn = FALSE
  /\ isCameraOn = TRUE
  /\ isAvatarTalking = FALSE
  /\ isListening = FALSE
  /\ transcript = << >>
  /\ avatarRef = 1
  /\ userStreamRef = IF error = "null" THEN 1 ELSE 0
  /\ audioStreamRef = 0
  /\ mediaRecorderRef = 0
  /\ deepgramSocketRef = 0
  /\ autoSendTimeoutRef = 0
  /\ pendingStreamRef = 0
  /\ conversationHistoryRef =
       addToConversation(<< >>, "interviewer", welcomeMessage)
  /\ videoSrc = 0
  /\ applied = [a \in Starts |-> 0]
  /\ cam = [a \in Starts |-> IF a = 1 /\ error = "null" THEN "live" ELSE "none"]
  /\ camEnabled = [a \in Starts |-> TRUE]
  /\ stream = [r \in Relays |-> "none"]
  /\ sock = [r \in Relays |-> "none"]
  /\ rec = [r \in Relays |-> "none"]
  /\ timers = [t \in Timers |-> NoTimer]
  /\ avatar = [a \in Starts |->
                 [st |-> IF a = 1 THEN "live" ELSE "none",
                  ready |-> FALSE, talking |-> FALSE]]
  /\ start = [a \in Starts |->
                IF a = 1 THEN [NoStart EXCEPT !.pc = "speak", !.token = "ok"]
                ELSE NoStart]
  /\ end = [e \in Ends |-> NoEnd]
  /\ relayPc = [r \in Relays |-> "unused"]
  /\ relayCs = [r \in Relays |-> "idle"]
  /\ speakReqs = << [avatar |-> 1, text |-> welcomeMessage] >>
  /\ gradingReqs = << >>
  /\ chunks = 0
  /\ escaped = FALSE

\* The transcript relay of an active call: the microphone toggle, the
\* start-up of the relay, its socket and recorder, and the avatar's
\* talking events.
NextRelay ==
  \/ toggleMic
  \/ \E r \in Relays, ok \in BOOLEAN : deepgramKeySettled(r, ok)
  \/ \E r \in Relays, ok \in BOOLEAN : microphoneSettled(r, ok)
  \/ \E r \in Relays : socketOnOpen(r)
  \/ \E r \in Relays : recorderOnDataAvailable(r)
  \/ \E r \in Relays, w \in BOOLEAN : socketDrops(r, w)
  \/ \E r \in Relays : socketOnClose(r)
  \/ \E a \in Starts : onAvatarStartTalking(a)
  \/ \E a \in Starts : onAvatarStopTalking(a)

SpecRelay == InitActive /\ [][NextRelay]_vars

\* The debounce of recognized speech in an active call, with at most
\* MaxSockets relays: recognizer messages, the auto-send timer and
\* sendToAvatar, the microphone toggle and the end of the interview.
NextDebounce ==
  \/ toggleMic
  \/ \E r \in Relays, ok \in BOOLEAN : deepgramKeySettled(r, ok)
  \/ \E r \in Relays, ok \in BOOLEAN : microphoneSettled(r, ok)
  \/ \E r \in Relays : socketOnOpen(r)
  \/ \E r \in Relays, p \in BOOLEAN, x \in MsgTexts, f \in BOOLEAN :
       socketOnMessage(r, p, x, f)
  \/ \E r \in Relays : socketOnClose(r)
  \/ \E t \in Timers : autoSendTimeout(t)
  \/ endInterview
  \/ \E e \in Ends, ok \in BOOLEAN : stopAvatarSettled(e, ok)
  \/ \E e \in Ends, o \in {"ok", "notOk", "rejected"} : gradingSettled(e, o)

WithinSockets == \A r \in Relays : r > MaxSockets => relayPc[r] = "unused"

SpecDebounce == InitActive /\ [][NextDebounce /\ WithinSockets']_vars

\* Final segments from every relay the microphone toggle has started: the
\* sockets share autoSendTimeoutRef.
NextCoalesce ==
  \/ toggleMic
  \/ \E r \in Relays, ok \in BOOLEAN : deepgramKeySettled(r, ok)
  \/ \E r \in Relays, ok \in BOOLEAN : microphoneSettled(r, ok)
  \/ \E r \in Relays : socketOnOpen(r)
  \/ \E r \in Relays, x \in {<<"a">>, <<"b", " ">>} :
       socketOnMessage(r, TRUE, x, TRUE)
  \/ \E r \in Relays : socketOnClose(r)
  \/ \E t \in Timers : autoSendTimeout(t)

SpecCoalesce == InitActive /\ [][NextCoalesce]_vars

\* The end of the interview under everything that can run beside it: the
\* welcome speak still in flight, a disconnect, a relay starting up and a
\* new start attempt up to its token request.  The stopAvatar call and the
\* grading request each settle eventually.
NextEnding ==
  \/ endInterview
  \/ \E e \in Ends, ok \in BOOLEAN : stopAvatarSettled(e, ok)
  \/ \E e \in Ends, o \in {"ok", "notOk", "rejected"} : gradingSettled(e, o)
  \/ \E a \in Starts, ok \in BOOLEAN : welcomeSpeakSettled(a, ok)
  \/ \E a \in Starts : onStreamDisconnected(a)
  \/ startInterview
  \/ \E a \in Starts, ok \in BOOLEAN : initUserCamera(a, ok)
  \/ toggleMic
  \/ \E r \in Relays, ok \in BOOLEAN : deepgramKeySettled(r, ok)
  \/ \E r \in Relays, ok \in BOOLEAN : microphoneSettled(r, ok)
  \/ \E r \in Relays : socketOnOpen(r)
  \/ \E r \in Relays : socketOnClose(r)

SpecEnding ==
  /\ InitActive
  /\ [][NextEnding /\ WithinSockets']_vars
  /\ WF_vars(\E e \in Ends, ok \in BOOLEAN : stopAvatarSettled(e, ok))
  /\ WF_vars(\E e \in Ends, o \in {"ok", "notOk", "rejected"} :
               gradingSettled(e, o))

\* Faults of the recognizer connection in an active call: the connection
\* drops, with or without an error event, and messages that cannot be
\* parsed, beside the debounce and the end of the interview.
NextFaults ==
  \/ toggleMic
  \/ \E r \in Relays, ok \in BOOLEAN : deepgramKeySettled(r, ok)
  \/ \E r \in Relays, ok \in BOOLEAN : microphoneSettled(r, ok)
  \/ \E r \in Relays : socketOnOpen(r)
  \/ \E r \in Relays, p \in BOOLEAN, x \in MsgTexts, f \in BOOLEAN :
       socketOnMessage(r, p, x, f)
  \/ \E r \in Relays, w \in BOOLEAN : socketDrops(r, w)
  \/ \E r \in Relays : socketOnClose(r)
  \/ \E t \in Timers : autoSendTimeout(t)
  \/ endInterview

SpecFaults == InitActive /\ [][NextFaults /\ WithinSockets']_vars

\* The timeline scenario: an active call in which time passes, the
\* candidate's utterances are recognized and dispatched, and the call is ended
\* and graded.
NextTimeline ==
  \/ tick
  \/ toggleMic
  \/ \E r \in Relays, ok \in BOOLEAN : deepgramKeySettled(r, ok)
  \/ \E r \in Relays, ok \in BOOLEAN : microphoneSettled(r, ok)
  \/ \E r \in Relays : socketOnOpen(r)
  \/ \E r \in Relays, x \in {<<"a">>, <<"b", " ">>} : socketOnMessage(r, TRUE, x, TRUE)
  \/ \E t \in Timers : autoSendTimeout(t)
  \/ endInterview
  \/ \E e \in Ends, ok \in BOOLEAN : stopAvatarSettled(e, ok)

SpecTimeline == InitActive /\ [][NextTimeline /\ WithinSockets']_vars

\* The unmount scenario: a call is started, the microphone relay is switched
\* on, and the component is unmounted at any point in between.
NextUnmount ==
  \/ startInterview
  \/ \E a \in Starts, ok \in BOOLEAN : initUserCamera(a, ok)
  \/ \E a \in Starts, o \in {"ok", "notOk", "rejected"} : tokenSettled(a, o)
  \/ \E a \in Starts, ok \in BOOLEAN : createStartAvatarSettled(a, ok)
  \/ toggleMic
  \/ \E r \in Relays, ok \in BOOLEAN : deepgramKeySettled(r, ok)
  \/ \E r \in Relays, ok \in BOOLEAN : microphoneSettled(r, ok)
  \/ \E r \in Relays : socketOnOpen(r)
  \/ \E r \in Relays : socketOnClose(r)
  \/ toggleCamera
  \/ unmount

SpecUnmount == Init /\ [][NextUnmount /\ WithinAttempts' /\ WithinSockets']_vars

\* The token route: two runs on servers that may hold different keys.
InitTokenRoute ==
  /\ InitComponent
  /\ tokenRoute \in [Runs -> {NoRun(k) : k \in ApiKeys}]
  /\ supabaseEnv = "ok"
  /\ candidates = [id \in CandidateIds |->
                     [exists |-> TRUE, interview_token |-> "tok", status |-> "NEW"]]
  /\ invite = [c \in Calls |-> NoCall]

NextTokenRoute ==
  \/ \E i \in Runs : POST(i)
  \/ \E i \in Runs, reply \in Replies : tokenFetchSettled(i, reply)

SpecTokenRoute == InitTokenRoute /\ [][NextTokenRoute]_vars

\* The first turns of a call, from the idle component: the call is started,
\* the microphone is switched on and recognized speech is dispatched; the
\* call may fail at the welcome and be started again.  Every other request
\* succeeds.
NextFirstTurn ==
  \/ startInterview
  \/ \E a \in Starts : initUserCamera(a, TRUE)
  \/ \E a \in Starts : tokenSettled(a, "ok")
  \/ \E a \in Starts : createStartAvatarSettled(a, TRUE)
  \/ \E a \in Starts, ok \in BOOLEAN : welcomeSpeakSettled(a, ok)
  \/ toggleMic
  \/ \E r \in Relays : deepgramKeySettled(r, TRUE)
  \/ \E r \in Relays : microphoneSettled(r, TRUE)
  \/ \E r \in Relays : socketOnOpen(r)
  \/ \E r \in Relays : socketOnMessage(r, TRUE, <<"a">>, TRUE)
  \/ \E t \in Timers : autoSendTimeout(t)

SpecFirstTurn == Init /\ [][NextFirstTurn /\ WithinSockets']_vars

\* Invitations: any configuration of the server, any rows of the table.
InitInvite ==
  /\ InitComponent
  /\ tokenRoute = [i \in Runs |-> NoRun("k1")]
  /\ supabaseEnv \in SupabaseEnvs
  /\ candidates \in [CandidateIds -> CandidateRows]
  /\ invite = [c \in Calls |-> NoCall]

NextInvite ==
  \/ \E c \in Calls, id \in CandidateIds : sendInterviewInvite(c, id)
  \/ \E c \in Calls, o \in {"data", "error", "throws"} : candidateFetchSettled(c, o)
  \/ \E c \in Calls, o \in {"ok", "error", "throws"} : statusUpdateSettled(c, o)

SpecInvite == InitInvite /\ [][NextInvite]_vars

\* The recognizer's messages: a relay is switched on and delivers every
\* kind of message, readable or not, empty, blank, interim and final, while
\* timers fire.
NextMessages ==
  \/ toggleMic
  \/ \E r \in Relays : deepgramKeySettled(r, TRUE)
  \/ \E r \in Relays : microphoneSettled(r, TRUE)
  \/ \E r \in Relays : socketOnOpen(r)
  \/ \E r \in Relays, p \in BOOLEAN, x \in MsgTexts, f \in BOOLEAN :
       socketOnMessage(r, p, x, f)
  \/ \E t \in Timers : autoSendTimeout(t)

SpecMessages == InitActive /\ [][NextMessages /\ WithinSockets']_vars

\* ---------------------------------------------------------------- claims
Rank(cs) ==
  CASE cs = "idle" -> 0
    [] cs = "connecting" -> 1
    [] cs = "active" -> 2
    [] cs = "analyzing" -> 3
    [] cs = "ended" -> 4

IsPrefix(s, t) == Len(s) <= Len(t) /\ SubSeq(t, 1, Len(s)) = s

\* C1: callStatus only moves forward along idle, connecting, active,
\* analyzing, ended; the only backward step is the failure return to idle of
\* a start attempt that has not yet become active.
C1_Monotonic ==
  [][ \/ Rank(callStatus') >= Rank(callStatus)
      \/ /\ callStatus' = "idle"
         /\ \E a \in Starts :
              /\ start[a].pc \in {"camera", "token", "create1", "create2"}
              /\ start'[a].pc = "failed" ]_vars

\* C2: at any instant at most one recognizer socket is connecting or open,
\* for every interleaving of toggleMic with the start-up of the relay.
C2_AtMostOneSocket ==
  Cardinality({r \in Relays : sock[r] \in {"connecting", "open"}}) <= 1

\* C3: while the avatar-talking flag is true no audio chunk is forwarded to
\* the recognizer socket.
C3_NoChunkWhileTalking == [][isAvatarTalking => chunks' = chunks]_vars

\* C4: whenever callStatus is ended, no camera or microphone track of a
\* stream the session acquired is live.
C4_EndedNoLiveTrack ==
  callStatus = "ended" =>
    /\ \A a \in Starts : cam[a] # "live"
    /\ \A r \in Relays : stream[r] # "live"

\* C5: the conversation log is append-only: in every step the log before is
\* a prefix of the log after.
C5_AppendOnly ==
  [][IsPrefix(conversationHistoryRef, conversationHistoryRef')]_vars

C5_Witness ==
  /\ Len(conversationHistoryRef) >= 2
  /\ conversationHistoryRef[2].role = "candidate"
  /\ callStatus = "ended"

\* C6: a final segment that a later final segment meets before its timer
\* fired is never dispatched: its timer never fires, and the avatar gets at
\* most one candidate utterance per timer that fired.
C6_SupersededNeverFires ==
  /\ \A t \in Timers : timers[t].sup => timers[t].st # "fired"
  /\ Cardinality({i \in 1..Len(speakReqs) : speakReqs[i].text # welcomeMessage})
       <= Cardinality({t \in Timers : timers[t].st = "fired"})

C6_Witness ==
  \E t1, t2 \in Timers :
    /\ timers[t1].st = "cleared" /\ timers[t1].sup
    /\ timers[t2].st = "fired" /\ ~timers[t2].sup
    /\ Len(speakReqs) = 2
    /\ speakReqs[2].text # welcomeMessage

\* C7: when the grading request fails (non-success or rejection) or
\* stopAvatar rejects, endInterview goes on: after stopAvatar the grading
\* request is issued, after the grading request callStatus becomes ended,
\* and no exception leaves the handler.
C7_EndSurvivesFailure ==
  [][\A e \in Ends :
       /\ (end[e].pc = "stopAvatar" /\ end'[e] # end[e]) =>
            /\ end'[e].pc = "grading"
            /\ Len(gradingReqs') = Len(gradingReqs) + 1
            /\ ~escaped'
       /\ (end[e].pc = "grading" /\ end'[e] # end[e]) =>
            /\ end'[e].pc = "done"
            /\ callStatus' = "ended"
            /\ ~escaped']_vars

C7_Witness ==
  \E e \in Ends :
    /\ end[e].failed
    /\ end[e].pc = "done"
    /\ callStatus = "ended"
    /\ ~escaped

\* C8: in every session that reaches ended exactly one grading request has
\* been issued, and it was issued while callStatus was analyzing.
C8_ExactlyOneGrading ==
  callStatus = "ended" =>
    /\ Len(gradingReqs) = 1
    /\ gradingReqs[1].status = "analyzing"

\* C9: ended is terminal: once callStatus is ended no step changes it.
C9_EndedTerminal == [][callStatus = "ended" => callStatus' = "ended"]_vars

\* C10: when the token request fails or returns a non-success status, or
\* the avatar session cannot be created, the attempt ends with callStatus
\* idle and an error message, and never makes the call active (it issues no
\* welcome speak).
StartFailed(a) ==
  start[a].token = "failed" \/ avatar[a].st = "failed"

C10_StartFailureToIdle ==
  [][\A a \in Starts :
       /\ (~StartFailed(a) /\ StartFailed(a)') =>
            callStatus' = "idle" /\ error' # "null"
       /\ StartFailed(a)' =>
            /\ start'[a].pc = "failed"
            /\ \A i \in 1..Len(speakReqs') : speakReqs'[i].avatar # a]_vars

C10_Witness ==
  \E a \in Starts :
    /\ start[a].token = "failed"
    /\ start[a].pc = "failed"
    /\ callStatus = "idle"
    /\ error = "Failed to get access token"

\* C11: when getUserMedia for the camera is denied or fails in a start
\* attempt, the attempt is aborted: it ends with callStatus idle and an
\* error message, and it never makes the call active.
C11_CameraFailureAborts ==
  [][\A a \in Starts :
       /\ (start[a].pc = "camera" /\ start'[a].pc # "camera" /\ cam'[a] = "none")
            => /\ callStatus' = "idle"
               /\ error' # "null"
               /\ start'[a].pc = "failed"
       /\ (cam'[a] = "none" /\ start'[a].pc \notin {"unused", "camera"})
            => \A i \in 1..Len(speakReqs') : speakReqs'[i].avatar # a]_vars

\* C12: every stream acquired with getUserMedia is stopped on every exit
\* path: the camera stream of an attempt that failed back to idle has no
\* live track, and no acquisition overwrites userStreamRef or audioStreamRef
\* while the stream it refers to still has live tracks.
C12_AcquiredStreamsStopped ==
  [][/\ \A a \in Starts : start'[a].pc = "failed" => cam'[a] # "live"
     /\ (userStreamRef # 0 /\ userStreamRef' \notin {0, userStreamRef})
          => cam[userStreamRef] # "live"
     /\ (audioStreamRef # 0 /\ audioStreamRef' \notin {0, audioStreamRef})
          => stream[audioStreamRef] # "live"]_vars

\* C13: when the avatar-start-talking event is handled while the relay has
\* a socket, a running recorder, a live microphone stream or a pending
\* debounce timer, then after the handler no socket is connecting or open,
\* no recorder is recording, no microphone stream is live and no timer is
\* pending.
RelayHasResource ==
  \/ \E r \in Relays : sock[r] \in {"connecting", "open"}
  \/ \E r \in Relays : rec[r] = "recording"
  \/ \E r \in Relays : stream[r] = "live"
  \/ \E t \in Timers : timers[t].st = "pending"

C13_StartTalkingTearsDown ==
  [][\A a \in Starts :
       (~avatar[a].talking /\ avatar'[a].talking /\ RelayHasResource)
         => ~RelayHasResource']_vars

\* C14: when the avatar-stop-talking event is handled, the relay is started
\* again (a startDeepgramListening invocation begins) exactly when the
\* microphone toggle isMicOn is true at that moment.
C14_StopTalkingRestarts ==
  [][\A a \in Starts :
       (avatar[a].talking /\ ~avatar'[a].talking /\ avatar'[a].st = avatar[a].st)
         => (isMicOn <=> relayPc' # relayPc)]_vars

\* C15: once endInterview has been invoked, no later state has a pending
\* debounce timer, an open recognizer socket, a running recorder or a live
\* microphone track, even after a relay start-up that was in flight completes.
C15_EndedRelayStaysDown ==
  (\E e \in Ends : end[e].pc # "unused") =>
    /\ \A t \in Timers : timers[t].st # "pending"
    /\ \A r \in Relays : sock[r] # "open"
    /\ \A r \in Relays : rec[r] # "recording"
    /\ \A r \in Relays : stream[r] # "live"

\* C16: at any instant at most one MediaRecorder is recording and at most
\* one microphone stream has live tracks.
C16_AtMostOneRecorderAndStream ==
  /\ Cardinality({r \in Relays : rec[r] = "recording"}) <= 1
  /\ Cardinality({r \in Relays : stream[r] = "live"}) <= 1

\* C17: for either order of the two readiness events (the avatar stream is
\* received, the <video> of the active view is mounted) the stream of a
\* session is applied to the video element exactly once: never twice, and
\* not left unapplied once it was received and the element is mounted.
C17_AppliedExactlyOnce ==
  /\ \A a \in Starts : applied[a] <= 1
  /\ \A a \in Starts :
       (pendingStreamRef = a /\ callStatus = "active") =>
         applied[a] >= 1 /\ videoSrc = a

\* C18: in every reachable state at most one debounce timer is pending,
\* also when two recognizer sockets are open and delivering final segments;
\* the pending timer is the one autoSendTimeoutRef holds.
C18_AtMostOnePendingTimer ==
  /\ Cardinality({t \in Timers : timers[t].st = "pending"}) <= 1
  /\ \A t \in Timers : timers[t].st = "pending" => autoSendTimeoutRef = t

C18_Witness ==
  /\ Cardinality({r \in Relays : sock[r] = "open"}) >= 2
  /\ \E t1, t2 \in Timers :
       /\ timers[t1].st = "cleared" /\ timers[t1].sup
       /\ timers[t2].st = "pending"

\* C19: in endInterview the relay is stopped, the camera tracks are stopped
\* and the stop of the avatar session is requested in the first block,
\* before the grading request is issued; a grading request is issued only
\* by an endInterview that has done so, and the outcome of the grading
\* request changes none of it.
C19_TeardownBeforeGrading ==
  [][/\ \A e \in Ends :
          (end[e].pc = "unused" /\ end'[e].pc \in {"stopAvatar", "grading"}) =>
            /\ audioStreamRef' = 0 /\ mediaRecorderRef' = 0
            /\ deepgramSocketRef' = 0 /\ autoSendTimeoutRef' = 0
            /\ audioStreamRef # 0 => stream'[audioStreamRef] # "live"
            /\ mediaRecorderRef # 0 => rec'[mediaRecorderRef] # "recording"
            /\ deepgramSocketRef # 0 =>
                 sock'[deepgramSocketRef] \notin {"connecting", "open"}
            /\ autoSendTimeoutRef # 0 =>
                 timers'[autoSendTimeoutRef].st # "pending"
            /\ userStreamRef' = 0
            /\ userStreamRef # 0 => cam'[userStreamRef] # "live"
            /\ avatarRef # 0 =>
                 /\ avatar'[avatarRef].st \notin {"starting", "live"}
                 /\ end'[e].pc = "stopAvatar"
                 /\ gradingReqs' = gradingReqs
     /\ Len(gradingReqs') > Len(gradingReqs) =>
          \E e \in Ends : end[e].pc \in {"unused", "stopAvatar"}
                           /\ end'[e].pc = "grading"
     /\ \A e \in Ends :
          (end[e].pc = "grading" /\ end'[e].pc # "grading") =>
            cam' = cam /\ stream' = stream /\ avatar' = avatar]_vars

C19_Witness ==
  \E e \in Ends, r \in Relays :
    /\ end[e].pc = "done" /\ end[e].failed
    /\ Len(gradingReqs) = 1
    /\ cam[1] = "stopped"
    /\ avatar[1].st = "stopped"
    /\ stream[r] = "stopped" /\ rec[r] = "inactive" /\ sock[r] = "closed"

\* C20: whenever callStatus becomes analyzing it eventually becomes ended,
\* given that stopAvatar and the grading request each settle.
C20_AnalyzingLeadsToEnded ==
  (callStatus = "analyzing") ~> (callStatus = "ended")

C20_Witness ==
  \E e \in Ends :
    /\ end[e].pc = "done"
    /\ callStatus = "ended"
    /\ start[1].pc = "failed"
    /\ \E r \in Relays : stream[r] = "live"

\* C21: a recognizer socket error, a recognizer socket close and an
\* unparsable recognizer message leave callStatus and the conversation log
\* as they were.
C21_RecognizerFaultsKeepSession ==
  [][(\/ \E r \in Relays : sock[r] # "closed" /\ sock'[r] = "closed"
      \/ \E r \in Relays, x \in MsgTexts, f \in BOOLEAN :
           socketOnMessage(r, FALSE, x, f))
       => /\ callStatus' = callStatus
          /\ conversationHistoryRef' = conversationHistoryRef]_vars

C21_Witness ==
  \E r \in Relays :
    /\ sock[r] = "closed"
    /\ error = "Voice recognition error"
    /\ callStatus = "active"
    /\ Len(conversationHistoryRef) >= 2

\* C22: when the recognizer connection fails (socket error or close from
\* the remote side) the relay is stopped: afterwards the recorder of that
\* socket is not recording and its microphone stream has no live track.
C22_RecognizerFaultStopsRelay ==
  [][\A r \in Relays :
       (sock[r] \in {"connecting", "open"} /\ sock'[r] = "closed")
         => rec'[r] # "recording" /\ stream'[r] # "live"]_vars

\* C23: no remote operation is retried automatically: a startInterview
\* invocation calls createStartAvatar at most once, and there are no more
\* grading requests than endInterview invocations.
createStartAvatarCalls(a) ==
  CASE start[a].pc \in {"unused", "camera", "token"} -> 0
    [] start[a].pc = "create1" -> 1
    [] start[a].pc = "create2" -> 2
    [] OTHER -> IF avatar[a].st = "none" THEN 0
                ELSE IF avatar[a].st = "failed" THEN 2 ELSE 1

C23_NoAutomaticRetry ==
  /\ \A a \in Starts : createStartAvatarCalls(a) <= 1
  /\ Len(gradingReqs) <= Cardinality({e \in Ends : end[e].pc # "unused"})

\* C24: stopDeepgramListening is idempotent and safe without resources:
\* called in a state where the four refs are null it fails nothing and
\* changes nothing, it leaves the four refs null whenever it returns, and
\* a second call right after the first changes nothing more.  Every
\* handler that turns the microphone off leaves the relay as it says.
C24_StopIdempotent ==
  [][LET s == RelayState
         once == stopDeepgram(s)
         twice == stopDeepgram(once)
     IN /\ twice = once
        /\ (s.autoSendTimeoutRef = 0 /\ s.mediaRecorderRef = 0
              /\ s.deepgramSocketRef = 0 /\ s.audioStreamRef = 0) => once = s
        /\ ~once.threw =>
              /\ once.autoSendTimeoutRef = 0 /\ once.mediaRecorderRef = 0
              /\ once.deepgramSocketRef = 0 /\ once.audioStreamRef = 0
        /\ (isMicOn /\ ~isMicOn') => RelayState' = once]_vars

C24_Witness ==
  /\ ~isMicOn
  /\ RelayState = stopDeepgram(RelayState)
  /\ \E r \in Relays :
       stream[r] = "stopped" /\ rec[r] = "inactive" /\ sock[r] = "closing"
  /\ \E t \in Timers : timers[t].st = "cleared" /\ ~timers[t].sup

\* C25: in every reachable state the timestamps of the conversation log are
\* non-decreasing along the log, for interviewer and candidate entries alike
\* (the clock new Date() reads is taken not to step backwards).
C25_TimestampsNonDecreasing ==
  \A i \in 2..Len(conversationHistoryRef) :
    conversationHistoryRef[i].timestamp >= conversationHistoryRef[i - 1].timestamp

\* The log holds the welcome and two candidate entries pushed at different
\* instants.
C25_Witness ==
  /\ Len(conversationHistoryRef) >= 3
  /\ conversationHistoryRef[1].role = "interviewer"
  /\ conversationHistoryRef[2].role = "candidate"
  /\ conversationHistoryRef[1].timestamp < conversationHistoryRef[2].timestamp
  /\ conversationHistoryRef[2].timestamp < conversationHistoryRef[3].timestamp

\* C26: after the unmount cleanup has run, in every later state (including
\* after an in-flight startInterview or startDeepgramListening completes) no
\* camera or microphone track acquired by the session is live.
C26_NoLiveTrackAfterUnmount ==
  unmounted =>
    /\ \A a \in Starts : cam[a] # "live"
    /\ \A r \in Relays : stream[r] # "live"

\* C27: the camera and microphone toggles only flip the enabled flag of
\* tracks of the already-acquired stream: neither toggleCamera nor toggleMic
\* stops an existing track or sets out to acquire a new device stream (no
\* run of startDeepgramListening, which calls getUserMedia, is begun).
C27_TogglesOnlyFlipEnabled ==
  [][(toggleCamera \/ toggleMic) =>
       /\ cam' = cam /\ userStreamRef' = userStreamRef
       /\ stream' = stream /\ audioStreamRef' = audioStreamRef
       /\ relayPc' = relayPc]_vars

\* C28: callStatus is active only after the stream-ready event of the
\* session's avatar has been received, and the opening utterance is logged
\* and dispatched only once that stream is attached to the video element.
C28_ActiveOnlyAfterStreamReady ==
  /\ callStatus = "active" => (avatarRef # 0 /\ avatar[avatarRef].ready)
  /\ \A a \in Starts : start[a].pc = "speak" => videoSrc = a

\* C29: while a debounce timer is pending, any newly recognized non-empty
\* segment, interim or final, resets the timer: the pending timer is
\* cancelled and a fresh one is armed.
C29_AnySegmentResetsTimer ==
  [][\A r \in Relays, x \in MsgTexts, f \in BOOLEAN, t \in Timers :
       (/\ socketOnMessage(r, TRUE, x, f)
        /\ Trim(x) # << >>
        /\ timers[t].st = "pending")
       => /\ timers'[t].st = "cleared"
          /\ \E u \in Timers \ {t} : timers'[u].st = "pending"]_vars

\* The document of a log: a header, then one group per entry in log order,
\* each a label with the rendered timestamp, the role label and the speaker,
\* followed by the entry's text.
WellFormedTranscript(log) ==
  LET doc == formatTranscript(log) IN
  /\ Len(doc) = 3 * Len(log) + 2
  /\ doc[1].kind = "header" /\ doc[1].candidate = candidateName
  /\ \A i \in 1..Len(log) :
       /\ doc[3 * i - 1] =
            [kind |-> "label",
             time |-> toLocaleTimeString(log[i].timestamp),
             role |-> IF log[i].role = "interviewer"
                        THEN "INTERVIEWER" ELSE "CANDIDATE",
             speaker |-> log[i].speaker]
       /\ doc[3 * i] = [kind |-> "text", text |-> log[i].text]

\* C30: for every conversation log, formatTranscript produces a header
\* followed by exactly one group per entry, in log order, each with the
\* entry's timestamp, its role label (INTERVIEWER or CANDIDATE) with the
\* speaker's name, and its text; the step that formats the log for grading
\* sends that document and leaves the log unchanged.
C30_FormatTranscript ==
  [][/\ WellFormedTranscript(conversationHistoryRef)
     /\ WellFormedTranscript(conversationHistoryRef')
     /\ Len(gradingReqs') > Len(gradingReqs) =>
          /\ gradingReqs'[Len(gradingReqs')].transcript =
               formatTranscript(conversationHistoryRef)
          /\ conversationHistoryRef' = conversationHistoryRef]_vars

\* A grading request carries the document of a log of three entries stamped
\* at different times of day, a candidate's among them.
C30_Witness ==
  /\ gradingReqs # << >>
  /\ Len(conversationHistoryRef) = 3
  /\ gradingReqs[1].transcript = formatTranscript(conversationHistoryRef)
  /\ gradingReqs[1].transcript[2].role = "INTERVIEWER"
  /\ gradingReqs[1].transcript[5].role = "CANDIDATE"
  /\ gradingReqs[1].transcript[2].time # gradingReqs[1].transcript[5].time
  /\ gradingReqs[1].transcript[6].text # gradingReqs[1].transcript[9].text

\* The error strings the token route writes itself.
FixedErrors ==
  {"HEYGEN_API_KEY not configured", "Failed to get access token",
   "Internal server error"}

\* C31: the avatar service key never reaches the browser.  The body of every
\* response of the token route holds only the token the service issued or a
\* fixed error string, and two runs that differ only in the key and receive
\* the same upstream reply return identical responses.
C31_KeyNeverInResponse ==
  /\ \A i \in Runs :
       tokenRoute[i].pc = "done" =>
         LET r == tokenRoute[i].response IN
         \/ r.field = "error" /\ r.value \in FixedErrors
         \/ /\ r.field = "token" /\ tokenRoute[i].reply.json = "token"
            /\ r.value = tokenRoute[i].reply.token
         \/ r.field = "none" /\ r.value = ""
  /\ \A i, j \in Runs :
       (/\ tokenRoute[i].pc = "done" /\ tokenRoute[j].pc = "done"
        /\ tokenRoute[i].reply # NoReply
        /\ tokenRoute[i].reply = tokenRoute[j].reply)
       => tokenRoute[i].response = tokenRoute[j].response

\* Two runs with different keys were refused upstream with the same reply,
\* whose error text quotes a key; both answered alike.
C31_Witness ==
  /\ tokenRoute[1].pc = "done" /\ tokenRoute[2].pc = "done"
  /\ tokenRoute[1].sent = "k1" /\ tokenRoute[2].sent = "k2"
  /\ tokenRoute[1].reply = tokenRoute[2].reply
  /\ tokenRoute[1].reply.kind = "notOk" /\ tokenRoute[1].reply.text = "k1"
  /\ tokenRoute[1].logged = "k1"
  /\ tokenRoute[1].response = tokenRoute[2].response

\* The candidate entries of the log, and the speak requests that carry a
\* candidate's utterance (every other request carries the welcome message).
CandidateEntries ==
  {i \in 1..Len(conversationHistoryRef) : conversationHistoryRef[i].role = "candidate"}

CandidateSpeakReqs ==
  {i \in 1..Len(speakReqs) : speakReqs[i].text # welcomeMessage}

\* C32: every speak request sendToAvatar issues for a candidate utterance
\* comes with the append, in the same call, of exactly one candidate entry
\* holding the trimmed utterance; the candidate entries and the candidate
\* speak requests are always equal in number, and an entry once appended
\* stays in the log whatever becomes of its request.
C32_SpeakRequestHasLogEntry ==
  [][/\ Cardinality(CandidateEntries) = Cardinality(CandidateSpeakReqs)
     /\ \A i \in 1..Len(conversationHistoryRef) :
          /\ i <= Len(conversationHistoryRef')
          /\ conversationHistoryRef'[i] = conversationHistoryRef[i]
     /\ \A t \in Timers :
          (autoSendTimeout(t) /\ speakReqs' # speakReqs) =>
            /\ speakReqs' = Append(speakReqs, [avatar |-> avatarRef,
                                               text |-> timers[t].text])
            /\ conversationHistoryRef' =
                 Append(conversationHistoryRef,
                        [role |-> "candidate", speaker |-> candidateName,
                         text |-> Trim(timers[t].text), timestamp |-> now])]_vars

\* An utterance with trailing whitespace was spoken in full and logged
\* trimmed, after another utterance.
C32_Witness ==
  /\ Cardinality(CandidateEntries) = 2
  /\ Cardinality(CandidateSpeakReqs) = 2
  /\ speakReqs[Len(speakReqs)].text = <<"b", " ">>
  /\ conversationHistoryRef[Len(conversationHistoryRef)].text = <<"b">>
  /\ conversationHistoryRef[Len(conversationHistoryRef)].role = "candidate"

FiredTimers == {t \in Timers : timers[t].st = "fired"}

C35_WelcomeFirst ==
  conversationHistoryRef # << >> =>
    /\ conversationHistoryRef[1].role = "interviewer"
    /\ conversationHistoryRef[1].text = Trim(welcomeMessage)

\* A candidate entry follows the welcome, and the call was started a second
\* time after that.
C35_Witness ==
  /\ Len(conversationHistoryRef) >= 3
  /\ conversationHistoryRef[1].role = "interviewer"
  /\ conversationHistoryRef[2].role = "candidate"
  /\ conversationHistoryRef[3].role = "interviewer"

\* C36: the isListening flag agrees with the relay: in every reachable state
\* isListening is true exactly when a recognizer socket created by the
\* session is open.
C36_ListeningIffSocketOpen ==
  isListening <=> \E r \in Relays : sock[r] = "open"

\* C37: in every reachable state where isMicOn is false and no toggleMic
\* handler is mid-execution (no run of startDeepgramListening is awaiting its
\* key or its microphone), the relay holds no resource: no recognizer socket
\* is connecting or open, no recorder is recording and no microphone track is
\* live.
C37_MicOffHoldsNothing ==
  (~isMicOn /\ \A r \in Relays : relayPc[r] \notin {"key", "mic"}) =>
    /\ \A r \in Relays : sock[r] \notin {"connecting", "open"}
    /\ \A r \in Relays : rec[r] # "recording"
    /\ \A r \in Relays : stream[r] # "live"

C39_TalkingKeepsMicToggle ==
  [][/\ \A a \in Starts :
          (onAvatarStartTalking(a) \/ onAvatarStopTalking(a)) => isMicOn' = isMicOn
     /\ isMicOn' # isMicOn => (toggleMic \/ endInterview)]_vars

\* The avatar started talking while the microphone was on (the toggle is
\* disabled while it talks), and the toggle is still on.
C39_Witness ==
  /\ isMicOn
  /\ isAvatarTalking
  /\ \E a \in Starts : avatar[a].st = "live" /\ avatar[a].talking
  /\ \E r \in Relays : sock[r] = "open"

\* C40: sendInterviewInvite never throws and returns success true only if
\* the candidate exists, has an interview token and the update of its status
\* to INVITE_SENT succeeded; when the configuration is missing, the candidate
\* is not found or it has no token, it returns success false with an error
\* and issues no update of the candidate record.
C40_InviteResult ==
  \A c \in Calls :
    invite[c].pc = "done" =>
      LET call == invite[c]
          row == candidates[call.candidateId] IN
      /\ ~call.threw
      /\ call.result.success =>
           /\ row.exists /\ row.interview_token # ""
           /\ call.updates = 1 /\ row.status = "INVITE_SENT"
      /\ ~call.result.success => call.result.error # ""
      /\ (\/ supabaseEnv # "ok"
          \/ ~row.exists
          \/ row.interview_token = "")
         => ~call.result.success /\ call.updates = 0
      /\ call.result.error \in {"Supabase not configured", "Candidate not found",
                                "No interview token found"}
         => call.updates = 0

\* One invocation invited a candidate; another found a candidate without a
\* token and left its record alone.
C40_Witness ==
  \E c, d \in Calls :
    /\ invite[c].pc = "done" /\ invite[c].result.success
    /\ candidates[invite[c].candidateId].status = "INVITE_SENT"
    /\ invite[d].pc = "done"
    /\ invite[d].result = Failure("No interview token found")
    /\ invite[d].updates = 0
    /\ candidates[invite[d].candidateId].status = "NEW"

====
